---------------------------- MODULE Spec2Model ----------------------------
(***************************************************************************)
(* A model of generate_mock_data.py: the equity-curve synthesizer, the     *)
(* price simulator, the position generator, the decision synthesizer, the  *)
(* record assembler and the run driver.                                    *)
(*                                                                         *)
(* Numbers.  Python floats are modelled as fixed-point integers:           *)
(*   money (balances, margin, P&L)      cents                              *)
(*   unrounded curve values             1e-4 dollar                        *)
(*   a coin price                       ticks: 1e-2 dollar, or 1e-6 dollar *)
(*                                      for a coin whose base price is < 1 *)
(*   an unrounded entry/fill price      a tenth of a tick                  *)
(*   a quantity                         1e-4 coin                          *)
(*   t, angles, sin, exp                1e-4                               *)
(*   a random.random() value            u / 65536, u \in 0..65535          *)
(* round(x, d) is round-half-even on the fixed-point value.                *)
(*                                                                         *)
(* Randomness.  The Mersenne Twister is modelled as a counter-based         *)
(* generator: the state is a counter, a draw returns a mixed 16-bit value  *)
(* of the counter and advances it.  Every draw of the program (random,     *)
(* uniform, choice, choices, sample, randint, gauss) consumes the stream   *)
(* in program order.  random.gauss is modelled as one draw mapped through  *)
(* a 16-entry table of normal quantiles.                                   *)
(***************************************************************************)
EXTENDS Integers, Sequences, FiniteSets, TLC

VARIABLES
    pc,            \* position of the modelled call sequence
    rng,           \* state of the shared random generator
    trader_type,   \* argument trader_type / trader_key
    step,          \* argument step (index i of the time grid)
    total_steps,   \* argument total_steps (n)
    balance,       \* argument balance, cents
    coin_prices,   \* result of simulate_coin_prices
    positions,     \* result of generate_positions
    decided,       \* result of generate_decisions: [actions, execution_log]
    record,        \* result of create_record
    n_points,      \* argument n_points of generate_equity_curve_v2
    personality,   \* argument personality of generate_equity_curve_v2
    noisy,         \* the noisy series handed to smooth_curve
    smoothed,      \* what smooth_curve returned
    window,        \* argument window of smooth_curve
    curve,         \* result of generate_equity_curve_v2 (or the error raised)
    runs           \* the two executions of main() compared for determinism

vars == <<pc, rng, trader_type, step, total_steps, balance, coin_prices,
          positions, decided, record, n_points, personality, noisy, smoothed,
          window, curve, runs>>

-----------------------------------------------------------------------------
(* Bounds of the model *)

\* number of distinct generator states a call may start from
RngMod == 256
\* largest step index of the time grid explored for one pipeline step
MaxStep == 1
\* largest n_points handed to generate_equity_curve_v2
MaxPoints == 12
\* number of generator states a curve synthesis may start from
MaxCurveSeed == 7
\* number of time-grid points of a modelled run of main()
RunPoints == 2
\* generator states an execution of main() may start in: 0..MaxEntropy
MaxEntropy == 2
\* generator states the positions handed to create_record are drawn from: 0..MaxPositionSeed
MaxPositionSeed == 3

-----------------------------------------------------------------------------
(* Fixed-point arithmetic *)

Abs(a) == IF a < 0 THEN -a ELSE a

Sign(a) == IF a < 0 THEN -1 ELSE 1

\* <<q, r>> with a * b = q * c + r and 0 <= r < c, for 0 <= a < c, b >= 0,
\* computed bit by bit so that no intermediate exceeds 2 * c + a.
RECURSIVE MulDivSmall(_, _, _)
MulDivSmall(a, b, c) ==
    IF b = 0 THEN <<0, 0>>
    ELSE LET h == MulDivSmall(a, b \div 2, c)
             s == 2 * h[2] + (b % 2) * a
         IN  <<2 * h[1] + s \div c, s % c>>

\* <<q, r>> with a * b = q * c + r and 0 <= r < c, for a, b >= 0 and c > 0
MulDivQR(a, b, c) ==
    LET h == MulDivSmall(a % c, b, c)
    IN  <<(a \div c) * b + h[1], h[2]>>

\* round-half-even of q + r / c
HalfEven(q, r, c) ==
    IF 2 * r > c \/ (2 * r = c /\ q % 2 = 1) THEN q + 1 ELSE q

\* round(a * b / c), half to even, for integers a, b and c > 0
MulDiv(a, b, c) ==
    LET h == MulDivQR(Abs(a), Abs(b), c)
    IN  Sign(a) * Sign(b) * HalfEven(h[1], h[2], c)

\* round(a / c), half to even
RoundDiv(a, c) == Sign(a) * HalfEven(Abs(a) \div c, Abs(a) % c, c)

\* floor(a * b / c) for a, b >= 0
MulDivFloor(a, b, c) == MulDivQR(a, b, c)[1]

Max(a, b) == IF a > b THEN a ELSE b

Min(a, b) == IF a < b THEN a ELSE b

RECURSIVE SumSeq(_)
SumSeq(s) == IF s = <<>> THEN 0 ELSE Head(s) + SumSeq(Tail(s))

\* the list [f(0), ..., f(n - 1)] of a comprehension, as a sequence
List(f, n) == SubSeq(f, 1, n)

-----------------------------------------------------------------------------
(* math.pi, math.sin, math.exp at scale 1e-4 *)

Pi4 == 31416

TwoPi4 == 62832

\* sin of an angle in [0, pi/2], by its Taylor series
SinSeries(a) ==
    LET a2 == RoundDiv(a * a, 10000)
        t3 == RoundDiv(RoundDiv(a * a2, 10000), 6)
        t5 == RoundDiv(RoundDiv(t3 * a2, 10000), 20)
        t7 == RoundDiv(RoundDiv(t5 * a2, 10000), 42)
        t9 == RoundDiv(RoundDiv(t7 * a2, 10000), 72)
    IN  a - t3 + t5 - t7 + t9

\* math.sin of a non-negative angle
Sin4(angle) ==
    LET a == angle % TwoPi4
        h == IF a >= Pi4 THEN a - Pi4 ELSE a
        q == IF 2 * h > Pi4 THEN Pi4 - h ELSE h
    IN  (IF a >= Pi4 THEN -1 ELSE 1) * SinSeries(q)

\* exp(-k) for k = 0..9
ExpNegInt == <<10000, 3679, 1353, 498, 183, 67, 25, 9, 3, 1>>

\* exp(-f) for f in [0, 1), by its Taylor series
ExpNegFrac(f) ==
    LET t2 == RoundDiv(f * f, 20000)
        t3 == RoundDiv(t2 * f, 30000)
        t4 == RoundDiv(t3 * f, 40000)
        t5 == RoundDiv(t4 * f, 50000)
        t6 == RoundDiv(t5 * f, 60000)
        t7 == RoundDiv(t6 * f, 70000)
    IN  10000 - f + t2 - t3 + t4 - t5 + t6 - t7

\* math.exp(-x) for x >= 0
ExpNeg4(x) ==
    IF x >= 100000 THEN 0
    ELSE RoundDiv(ExpNegInt[(x \div 10000) + 1] * ExpNegFrac(x % 10000), 10000)

-----------------------------------------------------------------------------
(* The random module *)

\* one mixing round of the generator's output function
MixRound(r, k) == (((r + k) * (r + k) * 37) \div 8 + 11 * r + k) % 256

\* four mixing rounds over the two bytes <<l, r>>
RECURSIVE MixRounds(_, _, _)
MixRounds(l, r, keys) ==
    IF keys = <<>> THEN l * 256 + r
    ELSE MixRounds(r, (l + MixRound(r, Head(keys))) % 256, Tail(keys))

\* the 16-bit value the generator yields in state x
Mix(x) ==
    LET y == (x * 25173 + 13849) % 65536
    IN  MixRounds(y \div 256, y % 256, <<17, 101, 59, 211>>)

\* the k-th draw after state x (k = 0 is the next draw)
Draw(x, k) == Mix((x + k) % RngMod)

\* the generator state after k draws
Advance(x, k) == (x + k) % RngMod

\* random.seed(a)
SeedState(a) == (a * 7) % RngMod

\* random.random() < p / q
RandomLess(u, p, q) == u * q < p * 65536

\* random.random() > p / q
RandomGreater(u, p, q) == u * q > p * 65536

\* random.uniform(lo, hi) = lo + (hi - lo) * random()
Uniform(lo, hi, u) == lo + MulDivFloor(hi - lo, u, 65536)

\* _randbelow(n)
RandBelow(n, u) == (u * n) \div 65536

\* random.choice(seq)
Choice(seq, u) == seq[RandBelow(Len(seq), u) + 1]

\* random.randint(a, b)
RandInt(a, b, u) == a + MulDivFloor(b - a + 1, u, 65536)

\* random.choices(population, weights=w)[0]: bisect of the cumulative weights
\* (in hundredths) at random() * total, with hi = n - 1
RECURSIVE Bisect(_, _, _, _)
Bisect(cum, x, total, i) ==
    IF i >= Len(cum) THEN Len(cum)
    ELSE IF x * total < cum[i] * 65536 THEN i
    ELSE Bisect(cum, x, total, i + 1)

RECURSIVE CumWeights(_)
CumWeights(w) ==
    IF w = <<>> THEN <<>>
    ELSE LET c == CumWeights(SubSeq(w, 1, Len(w) - 1))
         IN  Append(c, (IF c = <<>> THEN 0 ELSE c[Len(c)]) + w[Len(w)])

Choices(population, weights, u) ==
    LET cum == CumWeights(weights)
    IN  population[Bisect(cum, u, cum[Len(cum)], 1)]

\* SampleFrom drawing with replacement: the picked slot is not refilled
RECURSIVE SampleWithReplacement(_, _, _, _)
SampleWithReplacement(pool, k, x, i) ==
    IF i >= k THEN <<>>
    ELSE <<pool[RandBelow(Len(pool), Draw(x, i)) + 1]>>
            \o SampleWithReplacement(pool, k, x, i + 1)

\* random.sample(population, k) for a population of at most 21 elements:
\* pick j below n - i, take pool[j], move the last live element into slot j
RECURSIVE SampleFrom(_, _, _, _)
SampleFrom(pool, k, x, i) ==
    IF i >= k THEN <<>>
    ELSE LET n == Len(pool)
             j == RandBelow(n - i, Draw(x, i)) + 1
             moved == [pool EXCEPT ![j] = pool[n - i]]
         IN  <<pool[j]>> \o SampleFrom(moved, k, x, i + 1)

Sample(population, k, x) == SampleFrom(population, k, x, 0)

\* normal quantiles, in hundredths of sigma, one per sixteenth of [0, 1)
GaussTable ==
    <<-186, -132, -101, -78, -58, -40, -24, -8, 8, 24, 40, 58, 78, 101, 132, 186>>

\* random.gauss(0, sigma), in the unit sigma is given in
Gauss(sigma, u) == RoundDiv(sigma * GaussTable[(u \div 4096) + 1], 100)

-----------------------------------------------------------------------------
(* Configuration *)

TRADERS == <<"grok4", "gpt5", "gemini", "deepseek">>

\* a trader key none of the branches recognises
OtherTrader == "other"

CANDIDATE_COINS ==
    <<"BTCUSDT", "ETHUSDT", "SOLUSDT", "BNBUSDT", "DOGEUSDT", "XRPUSDT",
      "ADAUSDT", "HYPEUSDT">>

\* whether COIN_PRICES_BASE[coin] < 1
BaseBelowOne(coin) == coin \in {"DOGEUSDT", "ADAUSDT"}

\* ticks per dollar of a coin's prices: prices are kept to 6 decimals when
\* the base price is below 1 and to 2 decimals otherwise
PriceScale(coin) == IF BaseBelowOne(coin) THEN 10^6 ELSE 10^2

\* COIN_PRICES_BASE, in ticks
COIN_PRICES_BASE ==
    [coin \in {CANDIDATE_COINS[i] : i \in 1..Len(CANDIDATE_COINS)} |->
        CASE coin = "BTCUSDT"  -> 10500000
          [] coin = "ETHUSDT"  -> 330000
          [] coin = "SOLUSDT"  -> 26000
          [] coin = "BNBUSDT"  -> 70000
          [] coin = "DOGEUSDT" -> 350000
          [] coin = "XRPUSDT"  -> 280
          [] coin = "ADAUSDT"  -> 950000
          [] OTHER             -> 4500]

\* INITIAL_BALANCE, cents
INITIAL_BALANCE == 1000000

-----------------------------------------------------------------------------
(* simulate_coin_prices *)

\* the sinusoids <<amplitude (1e-2), frequency (1e-1), phase (1e-4 rad)>> of
\* a coin's drift
DriftWaves(coin) ==
    CASE coin = "BTCUSDT"  -> <<<<6, 15, 0>>, <<2, 40, 0>>>>
      [] coin = "ETHUSDT"  -> <<<<8, 12, 5000>>>>
      [] coin = "SOLUSDT"  -> <<<<12, 20, 10000>>>>
      [] coin = "BNBUSDT"  -> <<<<5, 10, 3000>>>>
      [] coin = "DOGEUSDT" -> <<<<18, 25, 20000>>>>
      [] coin = "XRPUSDT"  -> <<<<10, 18, 15000>>>>
      [] coin = "ADAUSDT"  -> <<<<8, 13, 8000>>>>
      [] OTHER             -> <<<<7, 15, 12000>>>>

\* the linear trend (1e-2 per unit of t) of a coin's drift
DriftTrend(coin) ==
    CASE coin = "BTCUSDT"  -> 4
      [] coin = "ETHUSDT"  -> 3
      [] coin = "SOLUSDT"  -> 2
      [] coin = "BNBUSDT"  -> 1
      [] coin = "DOGEUSDT" -> 1
      [] coin = "XRPUSDT"  -> 2
      [] coin = "ADAUSDT"  -> 1
      [] OTHER             -> 2

\* amp * sin(2 * pi * t * freq + phase), in 1e-6
Wave(w, t) == w[1] * Sin4(MulDiv(TwoPi4 * w[2], t, 100000) + w[3])

\* drift / base, in 1e-6
DriftFraction(coin, t) ==
    LET ws == DriftWaves(coin)
    IN  SumSeq([k \in 1..Len(ws) |-> Wave(ws[k], t)]) + DriftTrend(coin) * t

\* round(p, 6 if base < 1 else 2) of base + drift + noise, in ticks; u is the
\* draw of random.gauss(0, 0.003)
CoinPrice(coin, t, u) ==
    LET base == COIN_PRICES_BASE[coin] * 10
        drift == MulDiv(base, DriftFraction(coin, t), 10^6)
        noise == MulDiv(base, Gauss(3000, u), 10^6)
    IN  RoundDiv(base + drift + noise, 10)

\* the number of draws simulate_coin_prices consumes
PriceDraws == Len(CANDIDATE_COINS)

simulate_coin_prices(stp, total, x) ==
    LET t == MulDiv(stp, 10000, Max(total - 1, 1))
        drawn == List([k \in 1..Len(CANDIDATE_COINS) |->
                         CoinPrice(CANDIDATE_COINS[k], t, Draw(x, k - 1))],
                      Len(CANDIDATE_COINS))
    IN  [coin \in DOMAIN COIN_PRICES_BASE |->
            drawn[CHOOSE i \in 1..Len(CANDIDATE_COINS) : CANDIDATE_COINS[i] = coin]]

-----------------------------------------------------------------------------
(* generate_positions *)

\* whether a price in a coin's ticks is below one dollar
BelowOne(coin, price) == price < PriceScale(coin)

\* round(v, decimals) of a price v given in tenths of a tick, in ticks; a
\* price is never kept finer than its tick
RoundPrice(coin, v, decimals) ==
    LET grain == Max(10, (PriceScale(coin) * 10) \div (10^decimals))
    IN  RoundDiv(v, grain) * (grain \div 10)

\* coin_prices[coin] * (1 + offset), in tenths of a tick; offset in 1e-6
Offset(coin, price, offset) == price * 10 + MulDiv(price * 10, offset, 10^6)

\* round(size_usd / price, decimals), in 1e-4 coin; size_usd in cents, the
\* price in tenths of a tick
Quantity(coin, size_usd, price, decimals) ==
    MulDiv(size_usd, (PriceScale(coin) \div 10) * 10^decimals, price)
        * 10^(4 - decimals)

\* a price difference (tenths of a tick) times a quantity, in cents
Pnl(coin, diff, qty) == MulDiv(diff, qty, PriceScale(coin) * 1000)

\* the dict appended to positions
Position(coin, direction, entry_price, current_price, qty, leverage, size_usd, price_decimals) ==
    [symbol |-> coin,
     side |-> direction,
     entry_price |-> RoundPrice(coin, entry_price, price_decimals),
     mark_price |-> RoundPrice(coin, current_price * 10, price_decimals),
     quantity |-> qty,
     leverage |-> leverage,
     unrealized_pnl |->
        Pnl(coin, IF direction = "long" THEN current_price * 10 - entry_price
                  ELSE entry_price - current_price * 10, qty),
     margin |-> RoundDiv(size_usd, leverage)]

\* the body of the grok4 loop: four draws from state x
Grok4Position(coin, prices, x) ==
    LET entry_price == Offset(coin, prices[coin], Uniform(-20000, 15000, Draw(x, 0)))
        leverage == Choice(<<3, 5>>, Draw(x, 1))
        direction == IF RandomLess(Draw(x, 2), 75, 100) THEN "long" ELSE "short"
        size_usd == IF coin = "BTCUSDT" THEN Uniform(5000000, 8000000, Draw(x, 3))
                    ELSE Uniform(3000000, 5000000, Draw(x, 3))
        qty == Quantity(coin, size_usd, entry_price, 3)
    IN  Position(coin, direction, entry_price, prices[coin], qty, leverage, size_usd, 2)

\* the gpt5 branch after its gate: five draws from state x
Gpt5Position(prices, x) ==
    LET coin == Choice(<<"BTCUSDT", "ETHUSDT">>, Draw(x, 0))
        entry_price == Offset(coin, prices[coin], Uniform(-15000, 10000, Draw(x, 1)))
        leverage == Choice(<<2, 3>>, Draw(x, 2))
        size_usd == IF coin = "BTCUSDT" THEN Uniform(3000000, 5000000, Draw(x, 3))
                    ELSE Uniform(2000000, 3000000, Draw(x, 3))
        qty == Quantity(coin, size_usd, entry_price, 3)
    IN  Position(coin, "long", entry_price, prices[coin], qty, leverage, size_usd, 2)

\* the body of the gemini loop: four draws from state x
GeminiPosition(coin, prices, x) ==
    LET entry_price == Offset(coin, prices[coin], Uniform(-40000, 25000, Draw(x, 0)))
        leverage == Choice(<<2, 3>>, Draw(x, 1))
        direction == Choice(<<"long", "short">>, Draw(x, 2))
        size_usd == IF coin = "BTCUSDT" THEN Uniform(4000000, 7000000, Draw(x, 3))
                    ELSE IF coin = "ETHUSDT" THEN Uniform(2500000, 4500000, Draw(x, 3))
                    ELSE Uniform(800000, 1500000, Draw(x, 3))
        decimals == IF BelowOne(coin, prices[coin]) THEN 4 ELSE 3
        qty == Quantity(coin, size_usd, entry_price, decimals)
        price_decimals == IF BelowOne(coin, prices[coin]) THEN 6 ELSE 2
    IN  Position(coin, direction, entry_price, prices[coin], qty, leverage, size_usd,
                 price_decimals)

\* the body of the deepseek loop: four draws from state x
DeepseekPosition(coin, prices, x) ==
    LET entry_price == Offset(coin, prices[coin], Uniform(-35000, 20000, Draw(x, 0)))
        leverage == IF coin \in {"BTCUSDT", "ETHUSDT"} THEN Choice(<<3, 5>>, Draw(x, 1))
                    ELSE Choice(<<2, 3>>, Draw(x, 1))
        direction == Choice(<<"long", "short">>, Draw(x, 2))
        size_usd == IF coin = "BTCUSDT" THEN Uniform(4000000, 6000000, Draw(x, 3))
                    ELSE IF coin = "ETHUSDT" THEN Uniform(2500000, 4000000, Draw(x, 3))
                    ELSE Uniform(800000, 1200000, Draw(x, 3))
        qty == Quantity(coin, size_usd, entry_price, 3)
    IN  Position(coin, direction, entry_price, prices[coin], qty, leverage, size_usd, 2)

\* the candidate pool of a trader type's positions
PositionPool(trader) ==
    CASE trader = "grok4"    -> <<"BTCUSDT", "ETHUSDT">>
      [] trader = "gpt5"     -> <<"BTCUSDT", "ETHUSDT">>
      [] trader = "gemini"   -> <<"SOLUSDT", "BTCUSDT", "ETHUSDT", "DOGEUSDT",
                                  "BNBUSDT", "XRPUSDT">>
      [] trader = "deepseek" -> <<"BTCUSDT", "ETHUSDT", "SOLUSDT", "BNBUSDT">>
      [] OTHER               -> <<>>

\* the coins of a step: random.sample(pool, k) after the draw of k
SampleCoins(pool, k, x) == Sample(pool, Min(k, Len(pool)), x)

\* generate_positions: [val |-> the positions, rng |-> the generator after]
generate_positions(trader, bal, stp, total, prices, x) ==
    CASE trader = "grok4" ->
            IF RandomLess(Draw(x, 0), 55, 100)
            THEN LET k == Choices(<<1, 2>>, <<60, 40>>, Draw(x, 1))
                     coins == SampleCoins(PositionPool(trader), k, Advance(x, 2))
                 IN  [val |-> List([i \in 1..k |->
                                 Grok4Position(coins[i], prices, Advance(x, 2 + k + 4 * (i - 1)))], k),
                      rng |-> Advance(x, 2 + 5 * k)]
            ELSE [val |-> <<>>, rng |-> Advance(x, 1)]
      [] trader = "gpt5" ->
            IF RandomLess(Draw(x, 0), 35, 100)
            THEN [val |-> <<Gpt5Position(prices, Advance(x, 1))>>, rng |-> Advance(x, 5)]
            ELSE [val |-> <<>>, rng |-> Advance(x, 1)]
      [] trader = "gemini" ->
            IF RandomLess(Draw(x, 0), 65, 100)
            THEN LET n_pos == Choices(<<1, 2, 3>>, <<30, 40, 30>>, Draw(x, 1))
                     coins == SampleCoins(PositionPool(trader), n_pos, Advance(x, 2))
                     k == Len(coins)
                 IN  [val |-> List([i \in 1..k |->
                                 GeminiPosition(coins[i], prices, Advance(x, 2 + k + 4 * (i - 1)))], k),
                      rng |-> Advance(x, 2 + 5 * k)]
            ELSE [val |-> <<>>, rng |-> Advance(x, 1)]
      [] trader = "deepseek" ->
            IF RandomLess(Draw(x, 0), 45, 100)
            THEN LET n_pos == Choices(<<1, 2>>, <<60, 40>>, Draw(x, 1))
                     coins == SampleCoins(PositionPool(trader), n_pos, Advance(x, 2))
                     k == Len(coins)
                 IN  [val |-> List([i \in 1..k |->
                                 DeepseekPosition(coins[i], prices, Advance(x, 2 + k + 4 * (i - 1)))], k),
                      rng |-> Advance(x, 2 + 5 * k)]
            ELSE [val |-> <<>>, rng |-> Advance(x, 1)]
      [] OTHER -> [val |-> <<>>, rng |-> x]

-----------------------------------------------------------------------------
(* generate_decisions *)

\* action_probs.get(trader_type, 0.15), in hundredths
ActionProb(trader) ==
    CASE trader = "grok4"    -> 22
      [] trader = "gpt5"     -> 10
      [] trader = "gemini"   -> 32
      [] trader = "deepseek" -> 18
      [] OTHER               -> 15

\* the number of rationale strings in reasons
ReasonCount == 10

\* dir_map.get(trader_type, (0.5, [3], [2])): long_prob in hundredths,
\* btc_lev, alt_lev
DirMap(trader) ==
    CASE trader = "grok4"    -> <<72, <<3, 5>>, <<3, 5>>>>
      [] trader = "gpt5"     -> <<82, <<2, 3>>, <<2, 3>>>>
      [] trader = "gemini"   -> <<50, <<2, 3>>, <<2, 3>>>>
      [] trader = "deepseek" -> <<55, <<3, 5>>, <<2, 3>>>>
      [] OTHER               -> <<50, <<3>>, <<2>>>>

\* the coin of a new position, from the draw u
OpenCoin(trader, u) ==
    IF trader = "gemini"
    THEN Choice(<<"SOLUSDT", "BTCUSDT", "ETHUSDT", "DOGEUSDT", "BNBUSDT", "XRPUSDT">>, u)
    ELSE IF trader \in {"grok4", "gpt5"}
    THEN Choices(<<"BTCUSDT", "ETHUSDT", "SOLUSDT">>, <<50, 35, 15>>, u)
    ELSE Choice(<<"BTCUSDT", "ETHUSDT", "SOLUSDT", "BNBUSDT">>, u)

\* NoTrade naming the first candidate coin instead of "ALL"
NoTradeOnCoin(x) ==
    LET action_type == Choice(<<"wait", "hold">>, Draw(x, 1))
        reason == RandBelow(ReasonCount, Draw(x, 2)) + 1
    IN  [actions |-> <<[action |-> action_type, symbol |-> CANDIDATE_COINS[1], quantity |-> 0,
                        leverage |-> 0, price |-> 0, order_id |-> 0,
                        timestamp |-> "", success |-> TRUE, error |-> ""]>>,
         execution_log |-> <<[line |-> "rationale", symbol |-> CANDIDATE_COINS[1],
                              action |-> action_type, reason |-> reason]>>,
         rng |-> Advance(x, 3)]

\* the no-trade branch: the wait/hold decision and its rationale line
NoTrade(x) ==
    LET action_type == Choice(<<"wait", "hold">>, Draw(x, 1))
        reason == RandBelow(ReasonCount, Draw(x, 2)) + 1
    IN  [actions |-> <<[action |-> action_type, symbol |-> "ALL", quantity |-> 0,
                        leverage |-> 0, price |-> 0, order_id |-> 0,
                        timestamp |-> "", success |-> TRUE, error |-> ""]>>,
         execution_log |-> <<[line |-> "rationale", symbol |-> "ALL",
                              action |-> action_type, reason |-> reason]>>,
         rng |-> Advance(x, 3)]

\* ClosePosition closing at the position's entry price instead of its mark
ClosePositionAtEntry(poss, x) ==
    LET pos == Choice(poss, Draw(x, 0))
    IN  [actions |-> <<[action |-> IF pos.side = "long" THEN "close_long" ELSE "close_short",
                        symbol |-> pos.symbol, quantity |-> pos.quantity,
                        leverage |-> pos.leverage, price |-> pos.entry_price,
                        order_id |-> RandInt(100000, 999999, Draw(x, 1)),
                        timestamp |-> "", success |-> TRUE, error |-> ""]>>,
         execution_log |-> <<[line |-> "closed", side |-> pos.side, symbol |-> pos.symbol,
                              price |-> pos.entry_price,
                              sign |-> IF pos.unrealized_pnl >= 0 THEN "+" ELSE "-",
                              pnl |-> Abs(pos.unrealized_pnl)]>>,
         rng |-> Advance(x, 2)]

\* the close branch: pos = random.choice(positions), drawn at state x
ClosePosition(poss, x) ==
    LET pos == Choice(poss, Draw(x, 0))
    IN  [actions |-> <<[action |-> IF pos.side = "long" THEN "close_long" ELSE "close_short",
                        symbol |-> pos.symbol, quantity |-> pos.quantity,
                        leverage |-> pos.leverage, price |-> pos.mark_price,
                        order_id |-> RandInt(100000, 999999, Draw(x, 1)),
                        timestamp |-> "", success |-> TRUE, error |-> ""]>>,
         execution_log |-> <<[line |-> "closed", side |-> pos.side, symbol |-> pos.symbol,
                              price |-> pos.mark_price,
                              sign |-> IF pos.unrealized_pnl >= 0 THEN "+" ELSE "-",
                              pnl |-> Abs(pos.unrealized_pnl)]>>,
         rng |-> Advance(x, 2)]

\* the open branch: six draws from state x
OpenPosition(trader, prices, x) ==
    LET coin == OpenCoin(trader, Draw(x, 0))
        price == prices[coin]
        price_with_slippage == Offset(coin, price, Uniform(-2000, 2000, Draw(x, 1)))
        dm == DirMap(trader)
        direction == IF RandomLess(Draw(x, 2), dm[1], 100) THEN "open_long" ELSE "open_short"
        leverage == Choice(IF coin \in {"BTCUSDT", "ETHUSDT"} THEN dm[2] ELSE dm[3], Draw(x, 3))
        size_usd == IF coin = "BTCUSDT" THEN Uniform(5000000, 8000000, Draw(x, 4))
                    ELSE IF coin = "ETHUSDT" THEN Uniform(3000000, 5000000, Draw(x, 4))
                    ELSE Uniform(800000, 1500000, Draw(x, 4))
        qty == IF price > 1000 * PriceScale(coin)
               THEN Quantity(coin, size_usd, price_with_slippage, 3)
               ELSE IF price > PriceScale(coin)
               THEN Quantity(coin, size_usd, price_with_slippage, 2)
               ELSE Quantity(coin, size_usd, price_with_slippage, 0)
        price_dec == IF BelowOne(coin, price) THEN 6 ELSE 2
        fill == RoundPrice(coin, price_with_slippage, price_dec)
    IN  [actions |-> <<[action |-> direction, symbol |-> coin, quantity |-> qty,
                        leverage |-> leverage, price |-> fill,
                        order_id |-> RandInt(100000, 999999, Draw(x, 5)),
                        timestamp |-> "", success |-> TRUE, error |-> ""]>>,
         execution_log |-> <<[line |-> "opened",
                              side |-> IF direction = "open_long" THEN "LONG" ELSE "SHORT",
                              symbol |-> coin, leverage |-> leverage, price |-> fill,
                              size |-> RoundDiv(size_usd, 100)]>>,
         rng |-> Advance(x, 6)]

\* whether the trade branch closes: positions and random.random() < 0.4
\* (the draw is made only when positions is non-empty)
Closes(poss, x) == poss # <<>> /\ RandomLess(Draw(x, 1), 40, 100)

\* generate_decisions: [actions, execution_log, rng |-> the generator after]
generate_decisions(trader, poss, prices, x) ==
    IF RandomGreater(Draw(x, 0), ActionProb(trader), 100)
    THEN NoTrade(x)
    ELSE IF Closes(poss, x)
    THEN ClosePosition(poss, Advance(x, 2))
    ELSE OpenPosition(trader, prices, Advance(x, IF poss # <<>> THEN 2 ELSE 1))

-----------------------------------------------------------------------------
(* create_record *)

\* dur_ranges.get(trader_type, (3000, 8000))
DurRange(trader) ==
    CASE trader = "grok4"    -> <<2000, 8000>>
      [] trader = "gpt5"     -> <<3000, 12000>>
      [] trader = "gemini"   -> <<2500, 10000>>
      [] trader = "deepseek" -> <<4000, 15000>>
      [] OTHER               -> <<3000, 8000>>

\* sum(p.get("margin", 0) for p in positions)
TotalMargin(poss) == SumSeq([i \in 1..Len(poss) |-> poss[i].margin])

\* sum(p.get("unrealized_pnl", 0) for p in positions)
TotalUnrealized(poss) == SumSeq([i \in 1..Len(poss) |-> poss[i].unrealized_pnl])

\* max(balance - total_margin, 0)
Available(bal, total_margin) == Max(bal - total_margin, 0)

\* MarginPct without the cap at 90
MarginPctUncapped(bal, total_margin) ==
    IF bal > 0 THEN MulDiv(total_margin, 1000, bal) ELSE 0

\* min(round(total_margin / balance * 100, 1) if balance > 0 else 0, 90),
\* in tenths of a percent
MarginPct(bal, total_margin) ==
    Min(IF bal > 0 THEN MulDiv(total_margin, 1000, bal) ELSE 0, 900)

\* create_record: [val |-> the record, decided |-> what generate_decisions
\* returned, rng |-> the generator after]
create_record(timestamp, cycle_num, trader, bal, poss, prices, x) ==
    LET total_margin == TotalMargin(poss)
        d == generate_decisions(trader, poss, prices, x)
        ai_duration == RandInt(DurRange(trader)[1], DurRange(trader)[2], Draw(d.rng, 0))
    IN  [val |->
            [timestamp |-> timestamp,
             cycle_number |-> cycle_num,
             account_state |->
                [total_balance |-> bal,
                 available_balance |-> Available(bal, total_margin),
                 total_unrealized_profit |-> TotalUnrealized(poss),
                 position_count |-> Len(poss),
                 margin_used_pct |-> MarginPct(bal, total_margin)],
             positions |-> IF poss # <<>> THEN poss ELSE "None",
             candidate_coins |-> CANDIDATE_COINS,
             decisions |-> [i \in 1..Len(d.actions) |->
                              [d.actions[i] EXCEPT !.timestamp = timestamp]],
             execution_log |-> <<[line |-> "ai_duration", ms |-> ai_duration]>>
                                  \o d.execution_log,
             success |-> TRUE,
             error_message |-> "",
             ai_request_duration_ms |-> ai_duration],
         decided |-> [actions |-> d.actions, execution_log |-> d.execution_log],
         rng |-> Advance(d.rng, 1)]

-----------------------------------------------------------------------------
(* One step of the run for one trader: the calls main() makes for a grid    *)
(* point, from any generator state, grid point, trader key and balance.    *)

NoValue == "none"

\* balances a step may be handed, cents
Balances == {INITIAL_BALANCE, 1181364}

\* the time grid of the step pipeline
StepTotal == MaxStep + 1

Init ==
    /\ pc = "prices"
    /\ rng \in 0..(RngMod - 1)
    /\ trader_type \in {TRADERS[i] : i \in 1..Len(TRADERS)} \cup {OtherTrader}
    /\ step \in 0..MaxStep
    /\ total_steps = StepTotal
    /\ balance \in Balances
    /\ coin_prices = NoValue
    /\ positions = NoValue
    /\ decided = NoValue
    /\ record = NoValue
    /\ n_points = 0
    /\ personality = NoValue
    /\ noisy = NoValue
    /\ smoothed = NoValue
    /\ window = 0
    /\ curve = NoValue
    /\ runs = NoValue

\* coin_prices = simulate_coin_prices(i, n)
SimulateCoinPrices ==
    /\ pc = "prices"
    /\ coin_prices' = simulate_coin_prices(step, total_steps, rng)
    /\ rng' = Advance(rng, PriceDraws)
    /\ pc' = "positions"
    /\ UNCHANGED <<trader_type, step, total_steps, balance, positions, decided,
                   record, n_points, personality, noisy, smoothed, window, curve, runs>>

\* positions = generate_positions(trader_key, balance, i, n, coin_prices)
GeneratePositions ==
    /\ pc = "positions"
    /\ LET r == generate_positions(trader_type, balance, step, total_steps, coin_prices, rng)
       IN  /\ positions' = r.val
           /\ rng' = r.rng
    /\ pc' = "record"
    /\ UNCHANGED <<trader_type, step, total_steps, balance, coin_prices, decided,
                   record, n_points, personality, noisy, smoothed, window, curve, runs>>

\* record = create_record(ts, cycle_num, trader_key, balance, positions, coin_prices)
CreateRecord ==
    /\ pc = "record"
    /\ LET r == create_record(step, step + 1, trader_type, balance, positions,
                              coin_prices, rng)
       IN  /\ record' = r.val
           /\ decided' = r.decided
           /\ rng' = r.rng
    /\ pc' = "done"
    /\ UNCHANGED <<trader_type, step, total_steps, balance, coin_prices, positions,
                   n_points, personality, noisy, smoothed, window, curve, runs>>

Next == SimulateCoinPrices \/ GeneratePositions \/ CreateRecord

Spec == Init /\ [][Next]_vars

-----------------------------------------------------------------------------
(* create_record alone, handed any balance with positions that were sized  *)
(* against another one, so that the margin may exceed the balance.         *)

\* balances create_record may be handed, cents
RecordBalances == {0, 30000, INITIAL_BALANCE}

\* the positions and prices a step of trader tr yields from generator state s
StepInputs(tr, s) ==
    LET prices == simulate_coin_prices(0, StepTotal, s)
        pos == generate_positions(tr, INITIAL_BALANCE, 0, StepTotal, prices,
                                  Advance(s, PriceDraws))
    IN  [prices |-> prices, positions |-> pos.val]

\* the inputs create_record is handed: those of any trader's step
RecordInputs ==
    {StepInputs(TRADERS[k], s) : k \in 1..Len(TRADERS), s \in 0..MaxPositionSeed}

InitRecord ==
    /\ pc = "record"
    /\ rng \in 0..(RngMod - 1)
    /\ trader_type \in {TRADERS[i] : i \in 1..Len(TRADERS)} \cup {OtherTrader}
    /\ step = 0
    /\ total_steps = StepTotal
    /\ balance \in RecordBalances
    /\ \E inp \in RecordInputs :
          /\ coin_prices = inp.prices
          /\ positions = inp.positions
    /\ decided = NoValue
    /\ record = NoValue
    /\ n_points = 0
    /\ personality = NoValue
    /\ noisy = NoValue
    /\ smoothed = NoValue
    /\ window = 0
    /\ curve = NoValue
    /\ runs = NoValue

NextRecord == CreateRecord

SpecRecord == InitRecord /\ [][NextRecord]_vars

-----------------------------------------------------------------------------
(* Properties of one step *)

\* the positions exist once generate_positions has returned
HavePositions == pc \in {"record", "done"}

\* C1, as stated: in every record built from a positive balance,
\* available_balance is max(balance - sum(margin), 0) and margin_used_pct is
\* exactly min(100 * sum(margin) / balance, 90).
C1_Exact ==
    (pc = "done" /\ balance > 0) =>
        LET m == TotalMargin(positions)
            a == record.account_state
        IN  /\ a.available_balance = Max(balance - m, 0)
            /\ IF 10 * m >= 9 * balance THEN a.margin_used_pct = 900
               ELSE a.margin_used_pct * balance = 1000 * m

\* C1, amended: in every record, available_balance is
\* max(balance - sum(margin), 0), and margin_used_pct is 100 * sum(margin) /
\* balance rounded to one decimal and then capped at 90, and 0 when the
\* balance is not positive; both are fixed by the balance and the positions
\* alone, whatever the step then draws.
C1_RoundedThenCapped ==
    pc = "done" =>
        LET m == TotalMargin(positions)
            a == record.account_state
            pct == a.margin_used_pct
        IN  /\ a.available_balance = Max(balance - m, 0)
            /\ a.total_balance = balance
            /\ pct \in 0..900
            /\ IF balance <= 0 THEN pct = 0
               ELSE IF m >= balance THEN pct = 900
               ELSE IF pct = 900 THEN 1000 * m - 899 * balance >= (balance + 1) \div 2
               ELSE Abs(1000 * m - pct * balance) <= balance \div 2

\* a record whose margin percentage is below the cap and was rounded
C1_Witness ==
    /\ pc = "done"
    /\ positions # <<>>
    /\ record.account_state.available_balance > 0
    /\ record.account_state.margin_used_pct < 900
    /\ record.account_state.margin_used_pct * balance # 1000 * TotalMargin(positions)

\* unrealized_pnl recomputed from the stored entry_price, mark_price,
\* quantity and side of a position, cents
RecomputedPnl(p) ==
    Pnl(p.symbol,
        10 * (IF p.side = "long" THEN p.mark_price - p.entry_price
              ELSE p.entry_price - p.mark_price),
        p.quantity)

\* a dollar, in cents
PnlTolerance == 100 * 1

\* C2: for every position generate_positions returns, the unrealized_pnl
\* recomputed from its stored fields equals the stored unrealized_pnl to
\* within a dollar, a tolerance far wider than floating rounding.
C2_PnlRecomputable ==
    HavePositions =>
        \A i \in 1..Len(positions) :
            Abs(RecomputedPnl(positions[i]) - positions[i].unrealized_pnl) <= PnlTolerance

CloseActions == {"close_long", "close_short"}

OpenActions == {"open_long", "open_short"}

\* the decision closes the position p at its mark price and quantity
ClosesExactly(d, p) ==
    /\ d.symbol = p.symbol
    /\ d.action = (IF p.side = "long" THEN "close_long" ELSE "close_short")
    /\ d.quantity = p.quantity
    /\ d.leverage = p.leverage
    /\ d.price = p.mark_price

\* the first draw of generate_decisions takes the no-trade branch
TakesNoTrade == RandomGreater(Draw(rng, 0), ActionProb(trader_type), 100)

\* C5: every close decision generate_decisions emits copies symbol, side,
\* quantity, leverage and mark price of one position of the list it was
\* handed; with an empty list the trade branch always opens.
C5_CloseFromList ==
    [][pc = "record" /\ pc' = "done" =>
        /\ \A i \in 1..Len(decided'.actions) :
              decided'.actions[i].action \in CloseActions =>
                 \E j \in 1..Len(positions) :
                    ClosesExactly(decided'.actions[i], positions[j])
        /\ (positions = <<>> /\ ~TakesNoTrade) =>
              /\ Len(decided'.actions) = 1
              /\ decided'.actions[1].action \in OpenActions]_vars

\* a step that closed one of several open positions
C5_Witness ==
    /\ pc = "done"
    /\ Len(positions) >= 2
    /\ decided.actions[1].action \in CloseActions

\* C6: the no-trade branch returns exactly one decision, wait or hold, on
\* "ALL", with zero quantity, leverage and price, success = true and no
\* error, and exactly one rationale line; no instrument symbol appears.
C6_NoTradeShape ==
    [][(pc = "record" /\ pc' = "done" /\ TakesNoTrade) =>
        /\ Len(decided'.actions) = 1
        /\ LET d == decided'.actions[1]
           IN  /\ d.action \in {"wait", "hold"}
               /\ d.symbol = "ALL"
               /\ d.symbol \notin DOMAIN COIN_PRICES_BASE
               /\ d.quantity = 0 /\ d.leverage = 0 /\ d.price = 0
               /\ d.success = TRUE /\ d.error = ""
        /\ Len(decided'.execution_log) = 1
        /\ LET l == decided'.execution_log[1]
           IN  /\ l.line = "rationale"
               /\ l.symbol = "ALL"
               /\ l.action = decided'.actions[1].action
               /\ l.reason \in 1..ReasonCount]_vars

\* a step that waited although positions were open
C6_Witness ==
    /\ pc = "done"
    /\ positions # <<>>
    /\ decided.actions[1].action = "wait"

\* C8: a non-empty result of generate_positions holds 1 to 3 positions with
\* pairwise distinct symbols from the trader type's pool; an unrecognised
\* trader type always gets the empty sequence.
C8_DistinctFromPool ==
    HavePositions =>
        /\ Len(positions) \in 0..3
        /\ \A i, j \in 1..Len(positions) :
              i # j => positions[i].symbol # positions[j].symbol
        /\ \A i \in 1..Len(positions) :
              \E k \in 1..Len(PositionPool(trader_type)) :
                 positions[i].symbol = PositionPool(trader_type)[k]
        /\ trader_type = OtherTrader => positions = <<>>

\* three positions at once
C8_Witness ==
    /\ HavePositions
    /\ Len(positions) = 3

-----------------------------------------------------------------------------
(* smooth_curve *)

\* smooth_curve averaging over the points already smoothed (in place)
SmoothInPlace(values, w) ==
    LET n == Len(values)
        upto[k \in 0..n] ==
            IF k = 0 THEN values
            ELSE IF k < w + 1 \/ k > n - w THEN upto[k - 1]
            ELSE [upto[k - 1] EXCEPT
                    ![k] = RoundDiv(SumSeq(SubSeq(upto[k - 1], k - w, k + w)), 2 * w + 1)]
    IN  upto[n]

\* smooth_curve(values, window): result[i] = sum(values[i-w : i+w+1]) / (2w+1)
\* for i in range(w, len - w), the other points copied
smooth_curve(values, w) ==
    List([i \in 1..Len(values) |->
            IF i >= w + 1 /\ i <= Len(values) - w
            THEN RoundDiv(SumSeq(SubSeq(values, i - w, i + w)), 2 * w + 1)
            ELSE values[i]], Len(values))

-----------------------------------------------------------------------------
(* generate_equity_curve_v2 *)

Personalities == {"star", "conservative", "volatile", "underperformer"}

\* a personality none of the branches recognises
OtherPersonality == "other"

\* the number of points of the time grid: hourly from START to END
TimeGridPoints == 30 * 24

\* t = i / (n_points - 1), for n_points # 1
TimeFraction(i, n) == MulDiv(i, 10000, n - 1)

\* math.exp(-((t - center) ** 2) / (2 * width ** 2)); center, width in 1e-4
Bump(t, center, width) ==
    ExpNeg4(MulDiv((t - center) * (t - center), 10000, 2 * width * width))

\* the target value at time fraction t, in 1e-4 dollar
Target(p, t) ==
    CASE p = "star" ->
            (100 * INITIAL_BALANCE + 1800 * t)
            - 200 * Bump(t, 3000, 200)
            - 150 * Bump(t, 6700, 150)
            + 200 * Sin4(MulDiv(Pi4, t, 10000))
      [] p = "conservative" ->
            (100 * INITIAL_BALANCE + 800 * t)
            + 50 * Sin4(MulDiv(TwoPi4 * 3, t, 10000))
            - 80 * Bump(t, 5000, 500)
      [] p = "volatile" ->
            (100 * INITIAL_BALANCE + 300 * t)
            + 800 * Sin4(MulDiv(TwoPi4 * 15, t, 100000))
            + 500 * Sin4(MulDiv(TwoPi4 * 32, t, 100000) + 10000)
            - 600 * Bump(t, 5500, 400)
            + 400 * Bump(t, 3500, 300)
      [] OTHER ->
            LET rise == IF t < 4000
                        THEN 600 * Sin4(MulDiv(Pi4, Min(MulDiv(t, 10000, 4000), 10000), 10000))
                        ELSE 600 * ExpNeg4(3 * (t - 4000))
                crash == IF t > 4000 /\ t < 7500
                         THEN -1200 * Max(0, Sin4(MulDiv(Pi4, Max(0, t - 4000), 3500)))
                         ELSE 0
                recovery == IF t > 7500
                            THEN MulDiv(300 * Max(0, t - 7500), 10000, 2500)
                            ELSE 0
            IN  100 * INITIAL_BALANCE + rise + crash + recovery - 100 * t

\* the sigma of the noise, dollars
NoiseSigma(p) ==
    CASE p = "star" -> 20
      [] p = "conservative" -> 10
      [] p = "volatile" -> 35
      [] OTHER -> 18

\* noisy = [v + random.gauss(0, sigma) for v in target], in 1e-4 dollar
Noisy(n, p, x) ==
    List([k \in 1..n |->
            Target(p, TimeFraction(k - 1, n))
            + Gauss(NoiseSigma(p) * 10000, Draw(x, k - 1))], n)

\* [round(v, 2) for v in ...], cents
Rounded(values) ==
    List([k \in 1..Len(values) |-> RoundDiv(values[k], 100)], Len(values))

\* the value the underperformer curve is steered to, cents
UnderperformerTarget == 950000

\* the correction loop applying the whole offset at the last point
RampToTarget(result, n) ==
    LET offset == UnderperformerTarget - result[n]
        n_adjust == n \div 5
    IN  List([k \in 1..n |->
            IF k > n - n_adjust
            THEN RoundDiv(result[k] * n_adjust + offset * (k - (n - n_adjust)), n_adjust)
            ELSE result[k]], n)

\* the correction loop of the underperformer: result[idx] += offset * i /
\* n_adjust for i in range(n_adjust), idx = n_points - n_adjust + i
Ramp(result, n) ==
    LET offset == UnderperformerTarget - result[n]
        n_adjust == n \div 5
    IN  List([k \in 1..n |->
            IF k > n - n_adjust
            THEN RoundDiv(result[k] * n_adjust + offset * (k - 1 - (n - n_adjust)), n_adjust)
            ELSE result[k]], n)

\* whether the call raises ZeroDivisionError at t = i / (n_points - 1)
DividesByZero(n, p) == p \in Personalities /\ n >= 1 /\ n - 1 = 0

\* generate_equity_curve_v2: [kind, values |-> the balances in cents,
\* noisy, smoothed, rng |-> the generator after]
generate_equity_curve_v2(n, p, x) ==
    IF DividesByZero(n, p)
    THEN [kind |-> "ZeroDivisionError", values |-> <<>>, noisy |-> <<>>,
          smoothed |-> <<>>, rng |-> x]
    ELSE IF p \in Personalities
    THEN LET nz == Noisy(n, p, x)
             sm == smooth_curve(nz, 3)
         IN  [kind |-> "ok",
              values |-> IF p = "underperformer" THEN Ramp(Rounded(sm), n) ELSE Rounded(sm),
              noisy |-> nz, smoothed |-> sm, rng |-> Advance(x, n)]
    ELSE [kind |-> "ok", values |-> List([k \in 1..n |-> INITIAL_BALANCE], n), noisy |-> <<>>,
          smoothed |-> <<>>, rng |-> x]

-----------------------------------------------------------------------------
(* The synthesizer called alone: any point count up to MaxPoints or the     *)
(* configured grid, any personality, some generator states.                *)

PointCounts == 1..MaxPoints \cup {TimeGridPoints}

InitCurve ==
    /\ pc = "curve"
    /\ rng \in 0..MaxCurveSeed
    /\ n_points \in PointCounts
    /\ personality \in Personalities \cup {OtherPersonality}
    /\ trader_type = NoValue
    /\ step = 0
    /\ total_steps = 0
    /\ balance = 0
    /\ coin_prices = NoValue
    /\ positions = NoValue
    /\ decided = NoValue
    /\ record = NoValue
    /\ noisy = NoValue
    /\ smoothed = NoValue
    /\ window = 3
    /\ curve = NoValue
    /\ runs = NoValue

\* curve = generate_equity_curve_v2(n_points, personality)
GenerateEquityCurve ==
    /\ pc = "curve"
    /\ LET r == generate_equity_curve_v2(n_points, personality, rng)
       IN  /\ curve' = [kind |-> r.kind, values |-> r.values]
           /\ noisy' = r.noisy
           /\ smoothed' = r.smoothed
           /\ rng' = r.rng
    /\ pc' = "curve_done"
    /\ UNCHANGED <<trader_type, step, total_steps, balance, coin_prices, positions,
                   decided, record, n_points, personality, window, runs>>

NextCurve == GenerateEquityCurve

SpecCurve == InitCurve /\ [][NextCurve]_vars

-----------------------------------------------------------------------------
(* Properties of the synthesizer *)

\* the tolerance of "near": 100 dollars, one percent of the initial balance
Tolerance == 100 * 100

\* the final balance an archetype declares: +18%, +8%, +3%, -5%
FinalTarget(p) ==
    CASE p = "star"         -> (INITIAL_BALANCE * 118) \div 100
      [] p = "conservative" -> (INITIAL_BALANCE * 108) \div 100
      [] p = "volatile"     -> (INITIAL_BALANCE * 103) \div 100
      [] OTHER              -> (INITIAL_BALANCE * 95) \div 100

CurveReturned == pc = "curve_done" /\ curve.kind = "ok"

\* C3: for every archetype the returned curve starts within the tolerance of
\* the initial balance and ends within the tolerance of the archetype's
\* declared final balance (stated for the configured grid of 720 points).
C3_StartsAndEndsOnTarget ==
    (CurveReturned /\ personality \in Personalities /\ n_points = TimeGridPoints) =>
        /\ Abs(curve.values[1] - INITIAL_BALANCE) <= Tolerance
        /\ Abs(curve.values[n_points] - FinalTarget(personality)) <= Tolerance

\* C4: with point_count = 1 the synthesizer does not divide by zero and
\* returns a sequence of length 1, for every archetype.
C4_SinglePoint ==
    (pc = "curve_done" /\ n_points = 1) =>
        /\ curve.kind = "ok"
        /\ Len(curve.values) = 1

\* the rounded, smoothed values the underperformer's ramp starts from
BeforeRamp == [k \in 1..n_points |-> RoundDiv(smoothed[k], 100)]

UnderperformerReturned == CurveReturned /\ personality = "underperformer"

\* the ramp adds nothing at its first point and leaves the points before it
RampStartsAtZero ==
    \A k \in 1..n_points :
        k <= n_points - (n_points \div 5) + 1 => curve.values[k] = BeforeRamp[k]

-----------------------------------------------------------------------------
(* smooth_curve called alone: any short series, any window *)

\* longest series handed to smooth_curve alone
MaxLen == 7
\* largest window handed to smooth_curve alone
MaxWindow == 3

\* the values of a series handed to smooth_curve alone, in 1e-4 dollar
SmoothValues == {0, 1000, 2500}

RECURSIVE SeqsOfLen(_)
SeqsOfLen(n) ==
    IF n = 0 THEN {<<>>}
    ELSE {Append(q, v) : q \in SeqsOfLen(n - 1), v \in SmoothValues}

InitSmooth ==
    /\ pc = "smooth"
    /\ window \in 1..MaxWindow
    /\ noisy \in UNION {SeqsOfLen(n) : n \in 0..MaxLen}
    /\ smoothed = NoValue
    /\ rng = 0
    /\ trader_type = NoValue
    /\ step = 0
    /\ total_steps = 0
    /\ balance = 0
    /\ coin_prices = NoValue
    /\ positions = NoValue
    /\ decided = NoValue
    /\ record = NoValue
    /\ n_points = 0
    /\ personality = NoValue
    /\ curve = NoValue
    /\ runs = NoValue

\* smoothed = smooth_curve(noisy, window)
SmoothCurve ==
    /\ pc = "smooth"
    /\ smoothed' = smooth_curve(noisy, window)
    /\ pc' = "smooth_done"
    /\ UNCHANGED <<rng, trader_type, step, total_steps, balance, coin_prices,
                   positions, decided, record, n_points, personality, noisy,
                   window, curve, runs>>

NextSmooth == SmoothCurve

SpecSmooth == InitSmooth /\ [][NextSmooth]_vars

\* C10: smooth_curve returns a series of the same length whose first and
\* last `window` points are the input's and whose every other point is the
\* mean of the 2 * window + 1 input values around it; a series of at most
\* 2 * window points comes back unchanged.
C10_CenteredMeanOfInput ==
    pc \in {"smooth_done", "curve_done"} =>
        /\ Len(smoothed) = Len(noisy)
        /\ \A i \in 1..Len(noisy) :
              IF i <= window \/ i > Len(noisy) - window
              THEN smoothed[i] = noisy[i]
              ELSE 2 * Abs((2 * window + 1) * smoothed[i]
                           - SumSeq(SubSeq(noisy, i - window, i + window)))
                      <= 2 * window + 1
        /\ Len(noisy) <= 2 * window => smoothed = noisy

\* a series with two neighbouring smoothed points
C10_Witness ==
    /\ pc = "smooth_done"
    /\ Len(noisy) >= 2 * window + 2
    /\ smoothed[window + 1] # noisy[window + 1]
    /\ smoothed[window + 2] # noisy[window + 2]

-----------------------------------------------------------------------------
(* main(), executed twice from the same configuration: each execution      *)
(* starts with the generator in whatever state the process gave it, seeds  *)
(* it, derives the four curves and then writes one record per trader and   *)
(* grid point.                                                             *)

\* the seed main() passes to random.seed
SEED == 42

\* the personality of each trader's curve, in the order of TRADERS
CurvePersonality == <<"star", "conservative", "volatile", "underperformer">>

\* main() seeding nothing: the generator keeps the state it was given
KeepEntropy(x) == x

\* random.seed(42) at the top of main()
SeedMain(x) == SeedState(SEED)

Executions == {1, 2}

\* an execution before random.seed(42), its generator in the state e
StartOfMain(e) ==
    [pc |-> "start", entropy |-> e, rng |-> e, curves |-> <<>>, trader |-> 1,
     i |-> 0, coin_prices |-> <<>>, positions |-> <<>>, out |-> <<>>]

InitMain ==
    /\ runs \in [Executions -> {StartOfMain(e) : e \in 0..MaxEntropy}]
    /\ pc = "main"
    /\ rng = 0
    /\ trader_type = NoValue
    /\ step = 0
    /\ total_steps = RunPoints
    /\ balance = 0
    /\ coin_prices = NoValue
    /\ positions = NoValue
    /\ decided = NoValue
    /\ record = NoValue
    /\ n_points = 0
    /\ personality = NoValue
    /\ noisy = NoValue
    /\ smoothed = NoValue
    /\ window = 0
    /\ curve = NoValue

MainUnchanged ==
    UNCHANGED <<pc, rng, trader_type, step, total_steps, balance, coin_prices,
                positions, decided, record, n_points, personality, noisy, smoothed,
                window, curve>>

\* random.seed(42)
MainSeed(e) ==
    /\ runs[e].pc = "start"
    /\ runs' = [runs EXCEPT ![e].pc = "curves", ![e].rng = SeedMain(runs[e].rng)]
    /\ MainUnchanged

\* curves = {...}: the next call of generate_equity_curve_v2(n, ...), in the
\* order the dict literal makes them
MainCurve(e) ==
    /\ runs[e].pc = "curves"
    /\ LET k == Len(runs[e].curves) + 1
           c == generate_equity_curve_v2(total_steps, CurvePersonality[k], runs[e].rng)
       IN  runs' = [runs EXCEPT
                      ![e].curves = Append(runs[e].curves, c.values),
                      ![e].rng = c.rng,
                      ![e].pc = IF k = Len(CurvePersonality) THEN "prices" ELSE "curves"]
    /\ MainUnchanged

\* every step reading the first point of the curve
BalanceAtStart(balances, i) == balances[1]

\* balance = balances[i], the sequence being indexed from 1
BalanceAt(balances, i) == balances[i + 1]

\* coin_prices = simulate_coin_prices(i, n)
MainPrices(e) ==
    /\ runs[e].pc = "prices"
    /\ runs' = [runs EXCEPT
                  ![e].coin_prices = simulate_coin_prices(runs[e].i, total_steps, runs[e].rng),
                  ![e].rng = Advance(runs[e].rng, PriceDraws),
                  ![e].pc = "positions"]
    /\ MainUnchanged

\* positions = generate_positions(trader_key, balance, i, n, coin_prices)
MainPositions(e) ==
    /\ runs[e].pc = "positions"
    /\ LET r == runs[e]
           p == generate_positions(TRADERS[r.trader], BalanceAt(r.curves[r.trader], r.i), r.i,
                                   total_steps, r.coin_prices, r.rng)
       IN  runs' = [runs EXCEPT ![e].positions = p.val, ![e].rng = p.rng,
                                ![e].pc = "record"]
    /\ MainUnchanged

\* record = create_record(...) and json.dump(record, f), then the next grid
\* point, or the next trader after the last one
MainRecord(e) ==
    /\ runs[e].pc = "record"
    /\ LET r == runs[e]
           c == create_record(r.i, r.i + 1, TRADERS[r.trader],
                              BalanceAt(r.curves[r.trader], r.i), r.positions, r.coin_prices,
                              r.rng)
           last == r.i + 1 = total_steps
       IN  runs' = [runs EXCEPT
                      ![e].out = Append(r.out, <<TRADERS[r.trader], c.val>>),
                      ![e].rng = c.rng,
                      ![e].i = IF last THEN 0 ELSE r.i + 1,
                      ![e].trader = IF last THEN r.trader + 1 ELSE r.trader,
                      ![e].pc = IF last /\ r.trader = Len(TRADERS) THEN "done"
                                ELSE "prices"]
    /\ MainUnchanged

NextMain ==
    \E e \in Executions :
        MainSeed(e) \/ MainCurve(e) \/ MainPrices(e) \/ MainPositions(e) \/ MainRecord(e)

SpecMain == InitMain /\ [][NextMain]_vars

IsPrefix(a, b) == Len(a) <= Len(b) /\ SubSeq(b, 1, Len(a)) = a

\* C7: two runs of main() with the same seed and configuration draw the
\* same random values in the same order and write the same records: at any
\* moment the records one run has written are a prefix of the other's, two
\* runs at the same place hold the same generator state and curves, and two
\* finished runs wrote identical sequences.
C7_Deterministic ==
    pc = "main" =>
        LET a == runs[1]
            b == runs[2]
        IN  /\ IsPrefix(a.out, b.out) \/ IsPrefix(b.out, a.out)
            /\ (a.pc = b.pc /\ a.pc # "start" /\ a.trader = b.trader /\ a.i = b.i
                  /\ Len(a.curves) = Len(b.curves)) =>
                  /\ a.rng = b.rng
                  /\ a.curves = b.curves
                  /\ a.out = b.out
            /\ (a.pc = "done" /\ b.pc = "done") => a.out = b.out

\* two finished runs whose generators started in different states
C7_Witness ==
    /\ pc = "main"
    /\ runs[1].pc = "done"
    /\ runs[2].pc = "done"
    /\ runs[1].entropy # runs[2].entropy
    /\ Len(runs[1].out) = Len(TRADERS) * total_steps

-----------------------------------------------------------------------------
(* Order of a run *)

\* the places of an execution, as pairs <<from, to>> of consecutive ones
MainOrder ==
    {<<"start", "curves">>, <<"curves", "curves">>, <<"curves", "prices">>,
     <<"prices", "positions">>, <<"positions", "record">>,
     <<"record", "prices">>, <<"record", "done">>}

\* the records written so far are one per grid point and trader, in the
\* order of TRADERS and of time, each with cycle index i + 1 and the
\* balance of its trader's curve at i
SnapshotsInOrder(r) ==
    /\ r.out # <<>> => Len(r.curves) = Len(TRADERS)
    /\ r.pc \in {"prices", "positions", "record", "done"} => Len(r.curves) = Len(TRADERS)
    /\ Len(r.out) = (r.trader - 1) * total_steps + r.i
    /\ r.pc = "done" => Len(r.out) = Len(TRADERS) * total_steps
    /\ \A j \in 1..Len(r.out) :
          LET k == (j - 1) \div total_steps + 1
              i == (j - 1) % total_steps
              rec == r.out[j][2]
          IN  /\ r.out[j][1] = TRADERS[k]
              /\ rec.timestamp = i
              /\ rec.cycle_number = i + 1
              /\ rec.account_state.total_balance = r.curves[k][i + 1]
    /\ r.pc = "record" =>
          \A j \in 1..Len(r.positions) :
              r.positions[j].mark_price = r.coin_prices[r.positions[j].symbol]

\* a step of execution e follows MainOrder, leaves complete curves alone
\* and writes at most one record, from the positions of its own grid point
StepInOrder(e) ==
    LET r == runs[e]
        q == runs'[e]
    IN  /\ q # r => <<r.pc, q.pc>> \in MainOrder
        /\ Len(r.curves) = Len(TRADERS) => q.curves = r.curves
        /\ Len(r.curves) < Len(TRADERS) => IsPrefix(r.curves, q.curves)
        /\ IsPrefix(r.out, q.out)
        /\ q.out # r.out =>
              /\ r.pc = "record"
              /\ Len(q.out) = Len(r.out) + 1
              /\ q.out[Len(q.out)][2].account_state.position_count = Len(r.positions)
              /\ r.positions # <<>> => q.out[Len(q.out)][2].positions = r.positions

\* C11: in a run every trader's curve is derived before any record is
\* generated and never modified afterwards; then for each trader exactly one
\* record per grid point is produced, in time order, with cycle index i + 1
\* at step i and total_balance the trader's curve at i, each step simulating
\* prices, then generating positions, then deciding and assembling the record.
C11_CurvesThenOrderedSnapshots ==
    /\ [](pc = "main" => \A e \in Executions : SnapshotsInOrder(runs[e]))
    /\ [][pc = "main" => \A e \in Executions : StepInOrder(e)]_vars

\* one execution finished, its last record the last grid point of the last
\* trader, while the other is still deriving its curves
C11_Witness ==
    /\ pc = "main"
    /\ runs[1].pc = "done"
    /\ runs[2].pc = "curves"
    /\ Len(runs[1].out) = Len(TRADERS) * total_steps
    /\ runs[1].out[Len(runs[1].out)][1] = TRADERS[Len(TRADERS)]
    /\ runs[1].out[Len(runs[1].out)][2].cycle_number = total_steps

=============================================================================
